---- MODULE Spec2Model ----
(***************************************************************************)
(* Model of examples/agno-mock-server: the mock tools of agent.py, the     *)
(* agent configuration of create_agent, the module body of server.py and   *)
(* its /transcribe handler.                                                *)
(***************************************************************************)
EXTENDS Integers, Sequences, FiniteSets, TLC

(***************************************************************************)
(* Bounds of the model.                                                    *)
(***************************************************************************)
\* number of HTTP request slots
MaxRequests == 2
\* number of times the reloader restarts the worker
MaxReloads == 1

\* asyncio.sleep(1.5), in ticks of 0.75 s
SleepTicks == 2

(***************************************************************************)
(* Python values.                                                          *)
(***************************************************************************)
\* the value of a function whose body is `pass`
None == [py |-> "None"]

\* a call without arguments
NoArgs == [x \in {} |-> x]

(***************************************************************************)
(* agent.py: type definitions (the declared field sets).                   *)
(***************************************************************************)
RevenueData == {"month", "revenue", "expenses"}

CarData ==
  {"id", "name", "description", "price_per_day", "type", "seats",
   "image_url", "available"}

ProductData == {"name", "price", "cpu", "ram", "storage", "display", "rating"}

DashboardMetrics ==
  {"totalSales", "newCustomers", "activeProjects", "salesTrend",
   "customerTrend", "projectStatus"}

(***************************************************************************)
(* agent.py: backend data fetching tools.  Each operator takes the bound   *)
(* parameters of the Python function and yields its return value.          *)
(* rating is kept in tenths (4.8 is 48).                                   *)
(***************************************************************************)
\* a variant that compares period without regard to case
get_revenue_data_anycase(period) ==
  IF period \in {"quarterly", "Quarterly", "QUARTERLY"}
  THEN << [month |-> "Q1", revenue |-> 18000, expenses |-> 10500],
          [month |-> "Q2", revenue |-> 21000, expenses |-> 12000],
          [month |-> "Q3", revenue |-> 24000, expenses |-> 13500],
          [month |-> "Q4", revenue |-> 27000, expenses |-> 15000] >>
  ELSE << [month |-> "Jan", revenue |-> 5000, expenses |-> 3000],
          [month |-> "Feb", revenue |-> 6000, expenses |-> 3500],
          [month |-> "Mar", revenue |-> 7000, expenses |-> 4000],
          [month |-> "Apr", revenue |-> 7500, expenses |-> 4200],
          [month |-> "May", revenue |-> 8000, expenses |-> 4500],
          [month |-> "Jun", revenue |-> 8500, expenses |-> 4800] >>

\* a variant whose quarterly branch falls through to the monthly list as well
get_revenue_data_fallthrough(period) ==
  (IF period = "quarterly"
   THEN << [month |-> "Q1", revenue |-> 18000, expenses |-> 10500],
           [month |-> "Q2", revenue |-> 21000, expenses |-> 12000],
           [month |-> "Q3", revenue |-> 24000, expenses |-> 13500],
           [month |-> "Q4", revenue |-> 27000, expenses |-> 15000] >>
   ELSE << >>)
  \o << [month |-> "Jan", revenue |-> 5000, expenses |-> 3000],
        [month |-> "Feb", revenue |-> 6000, expenses |-> 3500],
        [month |-> "Mar", revenue |-> 7000, expenses |-> 4000],
        [month |-> "Apr", revenue |-> 7500, expenses |-> 4200],
        [month |-> "May", revenue |-> 8000, expenses |-> 4500],
        [month |-> "Jun", revenue |-> 8500, expenses |-> 4800] >>

\* a variant whose quarterly records are keyed by quarter
get_revenue_data_quarter_key(period) ==
  IF period = "quarterly"
  THEN << [quarter |-> "Q1", revenue |-> 18000, expenses |-> 10500],
          [quarter |-> "Q2", revenue |-> 21000, expenses |-> 12000],
          [quarter |-> "Q3", revenue |-> 24000, expenses |-> 13500],
          [quarter |-> "Q4", revenue |-> 27000, expenses |-> 15000] >>
  ELSE << [month |-> "Jan", revenue |-> 5000, expenses |-> 3000],
          [month |-> "Feb", revenue |-> 6000, expenses |-> 3500],
          [month |-> "Mar", revenue |-> 7000, expenses |-> 4000],
          [month |-> "Apr", revenue |-> 7500, expenses |-> 4200],
          [month |-> "May", revenue |-> 8000, expenses |-> 4500],
          [month |-> "Jun", revenue |-> 8500, expenses |-> 4800] >>

get_revenue_data(period) ==
  IF period = "quarterly"
  THEN << [month |-> "Q1", revenue |-> 18000, expenses |-> 10500],
          [month |-> "Q2", revenue |-> 21000, expenses |-> 12000],
          [month |-> "Q3", revenue |-> 24000, expenses |-> 13500],
          [month |-> "Q4", revenue |-> 27000, expenses |-> 15000] >>
  ELSE << [month |-> "Jan", revenue |-> 5000, expenses |-> 3000],
          [month |-> "Feb", revenue |-> 6000, expenses |-> 3500],
          [month |-> "Mar", revenue |-> 7000, expenses |-> 4000],
          [month |-> "Apr", revenue |-> 7500, expenses |-> 4200],
          [month |-> "May", revenue |-> 8000, expenses |-> 4500],
          [month |-> "Jun", revenue |-> 8500, expenses |-> 4800] >>

get_rental_cars(location) ==
  << [id |-> "car-1", name |-> "Tesla Model 3",
      description |-> "Electric sedan with autopilot and premium interior",
      price_per_day |-> 120, type |-> "Electric", seats |-> 5,
      image_url |-> "https://images.unsplash.com/photo-1560958089-b8a1929cea89?w=400",
      available |-> TRUE],
     [id |-> "car-2", name |-> "BMW X5",
      description |-> "Luxury SUV with advanced safety features",
      price_per_day |-> 150, type |-> "SUV", seats |-> 7,
      image_url |-> "https://images.unsplash.com/photo-1555215695-3004980ad54e?w=400",
      available |-> TRUE],
     [id |-> "car-3", name |-> "Honda Civic",
      description |-> "Reliable and fuel-efficient compact car",
      price_per_day |-> 45, type |-> "Compact", seats |-> 5,
      image_url |-> "https://images.unsplash.com/photo-1590362891991-f776e747a588?w=400",
      available |-> TRUE],
     [id |-> "car-4", name |-> "Ford Mustang",
      description |-> "Iconic sports car with powerful performance",
      price_per_day |-> 95, type |-> "Sports", seats |-> 4,
      image_url |-> "https://images.unsplash.com/photo-1584345604476-8ec5f8f2c8c2?w=400",
      available |-> FALSE] >>

get_laptop_comparison(category) ==
  << [name |-> "MacBook Pro 16\"", price |-> 2499, cpu |-> "M3 Max",
      ram |-> "32GB", storage |-> "1TB SSD", display |-> "16.2\" Retina",
      rating |-> 48],
     [name |-> "Dell XPS 15", price |-> 1899, cpu |-> "Intel i9",
      ram |-> "32GB", storage |-> "1TB SSD", display |-> "15.6\" OLED",
      rating |-> 46],
     [name |-> "Lenovo ThinkPad X1", price |-> 1699, cpu |-> "Intel i7",
      ram |-> "16GB", storage |-> "512GB SSD", display |-> "14\" IPS",
      rating |-> 45],
     [name |-> "ASUS ROG Zephyrus", price |-> 2199, cpu |-> "AMD Ryzen 9",
      ram |-> "32GB", storage |-> "1TB SSD", display |-> "15.6\" QHD",
      rating |-> 47] >>

\* a variant that personalises the metrics
get_dashboard_metrics_personal(userId) ==
  [totalSales |-> IF userId = "user123" THEN 125000 ELSE 0,
   newCustomers |-> 234, activeProjects |-> 12,
   salesTrend |-> "+12.5%", customerTrend |-> "+8.3%",
   projectStatus |-> "On Track"]

get_dashboard_metrics(userId) ==
  [totalSales |-> 125000, newCustomers |-> 234, activeProjects |-> 12,
   salesTrend |-> "+12.5%", customerTrend |-> "+8.3%",
   projectStatus |-> "On Track"]

get_market_share_data ==
  << [company |-> "Company A", share |-> 35],
     [company |-> "Company B", share |-> 28],
     [company |-> "Company C", share |-> 22],
     [company |-> "Company D", share |-> 15] >>

(***************************************************************************)
(* agent.py: frontend rendering tools.  Every body is `pass`.              *)
(***************************************************************************)
\* a variant that hands its data back
render_revenue_chart_echo(data, period, chartType) == data

render_revenue_chart(data, period, chartType) == None

render_rental_cars(data, location) == None

render_product_comparison(data, category) == None

render_dashboard(data, userId) == None

render_visualization(data, query, chartType) == None

show_alert(content) == None

(***************************************************************************)
(* agent.py: the signatures of the tools.                                  *)
(***************************************************************************)
\* the functions under @tool
FetchNames ==
  {"get_revenue_data", "get_rental_cars", "get_laptop_comparison",
   "get_dashboard_metrics", "get_market_share_data"}

\* the functions under @tool(external_execution=True)
RenderNames ==
  {"render_revenue_chart", "render_rental_cars", "render_product_comparison",
   "render_dashboard", "render_visualization", "show_alert"}

\* the default values of the optional parameters
Defaults(fn) ==
  CASE fn = "get_revenue_data" -> [period |-> "monthly"]
    [] fn = "get_rental_cars" -> [location |-> "San Francisco"]
    [] fn = "get_laptop_comparison" -> [category |-> "laptops"]
    [] fn = "get_dashboard_metrics" -> [userId |-> "user123"]
    [] fn = "get_market_share_data" -> NoArgs
    [] fn = "render_revenue_chart" -> [period |-> "monthly", chartType |-> "auto"]
    [] fn = "render_rental_cars" -> [location |-> "San Francisco"]
    [] fn = "render_product_comparison" -> [category |-> "products"]
    [] fn = "render_dashboard" -> [userId |-> None]
    [] fn = "render_visualization" -> [query |-> "Data", chartType |-> None]
    [] fn = "show_alert" -> NoArgs

\* Python's binding of a call's arguments: a given argument wins over the default
BindArgs(fn, given) == given @@ Defaults(fn)

\* the body of the function named fn, run on its bound arguments
Body(fn, a) ==
  CASE fn = "get_revenue_data" -> get_revenue_data(a.period)
    [] fn = "get_rental_cars" -> get_rental_cars(a.location)
    [] fn = "get_laptop_comparison" -> get_laptop_comparison(a.category)
    [] fn = "get_dashboard_metrics" -> get_dashboard_metrics(a.userId)
    [] fn = "get_market_share_data" -> get_market_share_data
    [] fn = "render_revenue_chart" -> render_revenue_chart(a.data, a.period, a.chartType)
    [] fn = "render_rental_cars" -> render_rental_cars(a.data, a.location)
    [] fn = "render_product_comparison" -> render_product_comparison(a.data, a.category)
    [] fn = "render_dashboard" -> render_dashboard(a.data, a.userId)
    [] fn = "render_visualization" -> render_visualization(a.data, a.query, a.chartType)
    [] fn = "show_alert" -> show_alert(a.content)

\* a variant whose revenue tool looks the period up in a table
InvokeLookup(fn, a) ==
  IF fn = "get_revenue_data" /\ a.period \notin {"monthly", "quarterly"}
  THEN [status |-> "raised", value |-> "KeyError"]
  ELSE [status |-> "returned", value |-> Body(fn, a)]

\* the outcome of a call: no body has a raise, a lookup or an arithmetic step
Invoke(fn, a) == [status |-> "returned", value |-> Body(fn, a)]

(***************************************************************************)
(* The arguments the model calls the tools with.                           *)
(***************************************************************************)
\* values of period other than the default
Periods == {"quarterly", "yearly", "Quarterly", ""}

\* a call leaves an optional parameter out or gives a value for it
Given(fn) ==
  CASE fn = "get_revenue_data" -> {NoArgs} \cup [period : Periods]
    [] fn = "get_rental_cars" -> {NoArgs} \cup [location : {"Paris"}]
    [] fn = "get_laptop_comparison" -> {NoArgs} \cup [category : {"phones"}]
    [] fn = "get_dashboard_metrics" -> {NoArgs} \cup [userId : {"user456"}]
    [] fn = "get_market_share_data" -> {NoArgs}
    [] fn = "render_revenue_chart" ->
         [data : {<<>>, get_revenue_data("monthly")}]
         \cup [data : {get_revenue_data("quarterly")},
               period : {"quarterly"}, chartType : {"bar"}]
    [] fn = "render_rental_cars" ->
         [data : {<<>>, get_rental_cars("San Francisco")}]
    [] fn = "render_product_comparison" ->
         [data : {get_laptop_comparison("laptops")}]
    [] fn = "render_dashboard" ->
         [data : {get_dashboard_metrics("user123")}, userId : {"user456"}]
    [] fn = "render_visualization" ->
         [data : {get_market_share_data}, chartType : {"pie"}]
    [] fn = "show_alert" -> [content : {"", "Done"}]

(***************************************************************************)
(* agent.py: create_knowledge_base and create_agent.                       *)
(***************************************************************************)
\* the Function object a decorator makes of fn: @tool leaves
\* external_execution off, @tool(external_execution=True) sets it
tool(fn) == [name |-> fn, external_execution |-> fn \in RenderNames]

\* a variant with render_visualization commented out
agent_tools_short ==
  << "get_revenue_data",
     "get_rental_cars",
     "get_laptop_comparison",
     "get_dashboard_metrics",
     "get_market_share_data",
     "render_revenue_chart",
     "render_rental_cars",
     "render_product_comparison",
     "render_dashboard",
     "show_alert" >>

\* the tools list of create_agent
agent_tools ==
  << "get_revenue_data",
     "get_rental_cars",
     "get_laptop_comparison",
     "get_dashboard_metrics",
     "get_market_share_data",
     "render_revenue_chart",
     "render_rental_cars",
     "render_product_comparison",
     "render_dashboard",
     "render_visualization",
     "show_alert" >>

\* the "Examples:" lines of the instructions, as (get_* call, render_* call)
agent_examples ==
  << [fetch |-> "get_revenue_data", render |-> "render_revenue_chart"],
     [fetch |-> "get_rental_cars", render |-> "render_rental_cars"],
     [fetch |-> "get_laptop_comparison", render |-> "render_product_comparison"],
     [fetch |-> "get_dashboard_metrics", render |-> "render_dashboard"],
     [fetch |-> "get_market_share_data", render |-> "render_visualization"] >>

create_knowledge_base(contents_db) ==
  [vector_db |-> [uri |-> "tmp/lancedb", table_name |-> "demo_knowledge"],
   contents_db |-> contents_db]

create_agent(db, knowledge) ==
  [name |-> "generative-ui-demo", db |-> db, knowledge |-> knowledge,
   tools |-> [i \in DOMAIN agent_tools |-> tool(agent_tools[i])],
   examples |-> agent_examples]

\* team.py: the team shares the sessions database
create_team(db) == [name |-> "language-team", db |-> db]

(***************************************************************************)
(* server.py: the objects of the module body.                              *)
(***************************************************************************)
SqliteDb(db_file, id) == [db_file |-> db_file, id |-> id]

AgentOS(agents, teams, knowledge) ==
  [id |-> "agno-demo", agents |-> agents, teams |-> teams,
   knowledge |-> knowledge, tracing |-> TRUE]

\* app.add_route(path, endpoint, methods=methods)
add_route(app, path, endpoint, methods) ==
  [app EXCEPT !.routes = @ \cup
     {[path |-> path, endpoint |-> endpoint, methods |-> methods]}]

\* the JSONResponse the transcribe handler returns
transcribe(request) ==
  [status_code |-> 200,
   json |-> [transcription |->
     "This is a fake transcription. Implement the backend to transcribe."]]

\* a variant that sleeps with time.sleep, which holds the event loop
time_sleep_yields == FALSE

\* `await asyncio.sleep(1.5)` suspends the handler and frees the event loop
asyncio_sleep_yields == TRUE

(***************************************************************************)
(* State.                                                                  *)
(*   pc, ns    the position and the namespace of each execution of the     *)
(*             module body of server.py: "__main__" is `python server.py`, *)
(*             "__mp_main__" and "server" are the two executions in the    *)
(*             worker that serve(app="server:app", reload=True) spawns     *)
(*   setup_tracing_calls  the calls of setup_tracing since the start       *)
(*   reloads   the restarts of the worker by the reloader                  *)
(*   req       the POST /transcribe requests of the worker; slept counts   *)
(*             the ticks a handler has been in its sleep, up to SleepTicks *)
(*   call      the last tool call of the worker: the function, its bound   *)
(*             arguments and the outcome                                   *)
(***************************************************************************)
VARIABLES pc, ns, setup_tracing_calls, reloads, req, call

vars == <<pc, ns, setup_tracing_calls, reloads, req, call>>

Loads == {"__main__", "__mp_main__", "server"}

Requests == 1 .. MaxRequests

Bodies == {"", "audio"}

IdleRequest == [pc |-> "idle", body |-> "", slept |-> 0, response |-> None]

IdleCall == [fn |-> "", args |-> NoArgs, outcome |-> None]

Init ==
  /\ pc = [l \in Loads |-> IF l = "__main__" THEN "load_dotenv" ELSE "unloaded"]
  /\ ns = [l \in Loads |-> NoArgs]
  /\ setup_tracing_calls = <<>>
  /\ reloads = 0
  /\ req = [r \in Requests |-> IdleRequest]
  /\ call = IdleCall

(***************************************************************************)
(* server.py: the module body, one action per statement.                   *)
(***************************************************************************)
\* the statement at `at` of execution l binds name to value and goes on to `next`
Assign(l, at, name, value, next) ==
  /\ pc[l] = at
  /\ ns' = [ns EXCEPT ![l] = (name :> value) @@ @]
  /\ pc' = [pc EXCEPT ![l] = next]

\* load_dotenv()
LoadDotenv(l) ==
  /\ pc[l] = "load_dotenv"
  /\ pc' = [pc EXCEPT ![l] = "db"]
  /\ UNCHANGED <<ns, setup_tracing_calls, reloads, req, call>>

\* db = SqliteDb(db_file="tmp/data.db")
CreateDb(l) ==
  /\ Assign(l, "db", "db", SqliteDb("tmp/data.db", "generated"), "setup_tracing")
  /\ UNCHANGED <<setup_tracing_calls, reloads, req, call>>

\* setup_tracing(db=db)
SetupTracing(l) ==
  /\ pc[l] = "setup_tracing"
  /\ setup_tracing_calls' =
       Append(setup_tracing_calls, [load |-> l, db |-> ns[l].db])
  /\ pc' = [pc EXCEPT ![l] = "knowledge_db"]
  /\ UNCHANGED <<ns, reloads, req, call>>

\* knowledge_db = SqliteDb(db_file="tmp/knowledge.db", id="demo-knowledge-db")
CreateKnowledgeDb(l) ==
  /\ Assign(l, "knowledge_db", "knowledge_db",
            SqliteDb("tmp/knowledge.db", "demo-knowledge-db"), "knowledge")
  /\ UNCHANGED <<setup_tracing_calls, reloads, req, call>>

\* knowledge = create_knowledge_base(contents_db=knowledge_db)
CreateKnowledge(l) ==
  /\ Assign(l, "knowledge", "knowledge",
            create_knowledge_base(ns[l].knowledge_db), "agent")
  /\ UNCHANGED <<setup_tracing_calls, reloads, req, call>>

\* agent = create_agent(db, knowledge=knowledge)
CreateAgent(l) ==
  /\ Assign(l, "agent", "agent", create_agent(ns[l].db, ns[l].knowledge), "team")
  /\ UNCHANGED <<setup_tracing_calls, reloads, req, call>>

\* team = create_team(db)
CreateTeam(l) ==
  /\ Assign(l, "team", "team", create_team(ns[l].db), "agent_os")
  /\ UNCHANGED <<setup_tracing_calls, reloads, req, call>>

\* agent_os = AgentOS(id=..., agents=[agent], teams=[team], knowledge=[knowledge], tracing=True)
CreateAgentOS(l) ==
  /\ Assign(l, "agent_os", "agent_os",
            AgentOS(<<ns[l].agent>>, <<ns[l].team>>, <<ns[l].knowledge>>), "app")
  /\ UNCHANGED <<setup_tracing_calls, reloads, req, call>>

\* app = agent_os.get_app(); the routes the framework generates are left out
GetApp(l) ==
  /\ Assign(l, "app", "app", [os |-> ns[l].agent_os.id, routes |-> {}], "add_route")
  /\ UNCHANGED <<setup_tracing_calls, reloads, req, call>>

\* app.add_route("/transcribe", transcribe, methods=["POST"])
AddRoute(l) ==
  /\ Assign(l, "add_route", "app",
            add_route(ns[l].app, "/transcribe", "transcribe", {"POST"}), "main")
  /\ UNCHANGED <<setup_tracing_calls, reloads, req, call>>

\* if __name__ == "__main__": agent_os.serve(app="server:app", reload=True).
\* The call does not return; the reloader spawns the worker, which starts by
\* running the script as __mp_main__.
Serve(l) ==
  /\ pc[l] = "main"
  /\ l = "__main__"
  /\ pc' = [pc EXCEPT ![l] = "serve", !["__mp_main__"] = "load_dotenv"]
  /\ UNCHANGED <<ns, setup_tracing_calls, reloads, req, call>>

\* __name__ is not "__main__": the body ends.  After __mp_main__ the worker
\* imports the module named by the string "server:app".
ModuleEnd(l) ==
  /\ pc[l] = "main"
  /\ l # "__main__"
  /\ pc' = IF l = "__mp_main__"
           THEN [pc EXCEPT ![l] = "done", !["server"] = "load_dotenv"]
           ELSE [pc EXCEPT ![l] = "done"]
  /\ UNCHANGED <<ns, setup_tracing_calls, reloads, req, call>>

\* the worker serves ns["server"].app once the import of "server" has finished
Serving == pc["server"] = "done"

\* the route of the served app for a path and a method
Routed(path, method) ==
  /\ Serving
  /\ \E rt \in ns["server"].app.routes : rt.path = path /\ method \in rt.methods

\* reload=True: a file change restarts the serving worker, which runs the
\* module body again in a new process; the shutdown of the old worker waits
\* for the requests in flight, and the new worker starts without requests
\* and calls
Reload ==
  /\ Serving
  /\ reloads < MaxReloads
  /\ \A r \in Requests : req[r].pc # "sleeping"
  /\ reloads' = reloads + 1
  /\ pc' = [pc EXCEPT !["__mp_main__"] = "load_dotenv", !["server"] = "unloaded"]
  /\ ns' = [ns EXCEPT !["__mp_main__"] = NoArgs, !["server"] = NoArgs]
  /\ req' = [r \in Requests |-> IdleRequest]
  /\ call' = IdleCall
  /\ UNCHANGED setup_tracing_calls

(***************************************************************************)
(* server.py: the transcribe handler.                                      *)
(***************************************************************************)
\* the event loop can run a handler: no handler holds it while it sleeps
LoopFree == asyncio_sleep_yields \/ \A q \in Requests : req[q].pc # "sleeping"

\* a POST /transcribe arrives; the handler runs up to `await asyncio.sleep(1.5)`
PostTranscribe(r, body) ==
  /\ Routed("/transcribe", "POST")
  /\ req[r].pc = "idle"
  /\ LoopFree
  /\ req' = [req EXCEPT ![r] = [@ EXCEPT !.pc = "sleeping", !.body = body,
                                         !.slept = 0]]
  /\ UNCHANGED <<pc, ns, setup_tracing_calls, reloads, call>>

\* a variant that does not await the sleep
SleepNotAwaited(r) == TRUE

\* the sleep of request r is over
SleepElapsed(r) == req[r].slept >= SleepTicks

\* the handler resumes after the sleep and returns the JSONResponse
TranscribeReturn(r) ==
  /\ req[r].pc = "sleeping"
  /\ SleepElapsed(r)
  /\ asyncio_sleep_yields \/ \A q \in Requests \ {r} : req[q].pc # "sleeping"
  /\ req' = [req EXCEPT ![r] = [@ EXCEPT !.pc = "responded",
                                         !.response = transcribe(req[r].body)]]
  /\ UNCHANGED <<pc, ns, setup_tracing_calls, reloads, call>>

\* a tick passes for every handler that sleeps
Tick ==
  /\ \E r \in Requests : req[r].pc = "sleeping" /\ req[r].slept < SleepTicks
  /\ req' = [r \in Requests |->
              IF req[r].pc = "sleeping" /\ req[r].slept < SleepTicks
              THEN [req[r] EXCEPT !.slept = @ + 1]
              ELSE req[r]]
  /\ UNCHANGED <<pc, ns, setup_tracing_calls, reloads, call>>

(***************************************************************************)
(* The calls of the tools registered with the served agent.                *)
(***************************************************************************)
Registered ==
  IF Serving
  THEN {ns["server"].agent.tools[i].name : i \in DOMAIN ns["server"].agent.tools}
  ELSE {}

\* a tool is called: Python binds the arguments and runs the body.  The
\* bodies have no await, so a call is one step.
CallTool(fn, given) ==
  /\ fn \in Registered
  /\ call' = [fn |-> fn, args |-> BindArgs(fn, given),
              outcome |-> Invoke(fn, BindArgs(fn, given))]
  /\ UNCHANGED <<pc, ns, setup_tracing_calls, reloads, req>>

Next ==
  \/ \E l \in Loads : LoadDotenv(l)
  \/ \E l \in Loads : CreateDb(l)
  \/ \E l \in Loads : SetupTracing(l)
  \/ \E l \in Loads : CreateKnowledgeDb(l)
  \/ \E l \in Loads : CreateKnowledge(l)
  \/ \E l \in Loads : CreateAgent(l)
  \/ \E l \in Loads : CreateTeam(l)
  \/ \E l \in Loads : CreateAgentOS(l)
  \/ \E l \in Loads : GetApp(l)
  \/ \E l \in Loads : AddRoute(l)
  \/ \E l \in Loads : Serve(l)
  \/ \E l \in Loads : ModuleEnd(l)
  \/ Reload
  \/ \E r \in Requests, body \in Bodies : PostTranscribe(r, body)
  \/ \E r \in Requests : TranscribeReturn(r)
  \/ Tick
  \/ \E fn \in FetchNames \cup RenderNames : \E given \in Given(fn) : CallTool(fn, given)

Spec == Init /\ [][Next]_vars

(***************************************************************************)
(* Properties.                                                             *)
(***************************************************************************)
Returned(v) == [status |-> "returned", value |-> v]

Months(rows) == [i \in DOMAIN rows |-> rows[i].month]

\* C1: a get_revenue_data call whose period is not exactly "quarterly"
\* returns 6 records, Jan to Jun in this order, the first one Jan, 5000, 3000.
C1_MonthlyList ==
  (call.fn = "get_revenue_data" /\ call.args.period # "quarterly") =>
    /\ call.outcome.status = "returned"
    /\ Len(call.outcome.value) = 6
    /\ Months(call.outcome.value) = <<"Jan", "Feb", "Mar", "Apr", "May", "Jun">>
    /\ call.outcome.value[1] = [month |-> "Jan", revenue |-> 5000, expenses |-> 3000]

C1_Witness == call.fn = "get_revenue_data" /\ call.args.period = "Quarterly"

\* C2: a get_revenue_data call whose period is exactly "quarterly" returns 4
\* records, Q1 to Q4 in this order, and no monthly record.
C2_QuarterlyList ==
  (call.fn = "get_revenue_data" /\ call.args.period = "quarterly") =>
    /\ call.outcome.status = "returned"
    /\ Len(call.outcome.value) = 4
    /\ Months(call.outcome.value) = <<"Q1", "Q2", "Q3", "Q4">>
    /\ \A i \in DOMAIN call.outcome.value :
         call.outcome.value[i].month \notin {"Jan", "Feb", "Mar", "Apr", "May", "Jun"}

C2_Witness ==
  /\ call.fn = "get_revenue_data"
  /\ call.args.period = "quarterly"
  /\ call.outcome.status = "returned"

\* C3 as stated: the result of a fetch call equals the result of the same
\* function on any other arguments.
C3_AnyArguments ==
  call.fn \in FetchNames =>
    \A g \in Given(call.fn) :
      Invoke(call.fn, BindArgs(call.fn, g)) = call.outcome

\* C3 amended: the result of a fetch call other than get_revenue_data equals
\* the result of the same function on any other arguments; the result of a
\* get_revenue_data call equals its result on any period that is "quarterly"
\* exactly when the call's period is.
C3_SameBranch ==
  call.fn \in FetchNames =>
    \A g \in Given(call.fn) :
      LET a == BindArgs(call.fn, g) IN
      (call.fn = "get_revenue_data" =>
         ((a.period = "quarterly") <=> (call.args.period = "quarterly")))
      => Invoke(call.fn, a) = call.outcome

C3_Witness == call.fn = "get_dashboard_metrics" /\ call.args.userId = "user456"

\* C4: a response to POST /transcribe carries the fixed transcription, and
\* it exists only once the sleep of its request is over.
C4_FixedAfterDelay ==
  \A r \in Requests :
    req[r].response # None =>
      /\ req[r].pc = "responded"
      /\ req[r].response.json =
           [transcription |->
              "This is a fake transcription. Implement the backend to transcribe."]
      /\ req[r].slept >= SleepTicks

C4_Witness ==
  \E r \in Requests : req[r].pc = "responded" /\ req[r].body = "audio"

\* C5: a step that calls a render function returns None and changes nothing
\* but the record of the call.
C5_RenderNoEffect ==
  [][(call' # call /\ call'.fn \in RenderNames) =>
       /\ call'.outcome = Returned(None)
       /\ UNCHANGED <<pc, ns, setup_tracing_calls, reloads, req>>]_vars

C5_Witness ==
  /\ call.fn = "render_revenue_chart"
  /\ call.args.data # <<>>
  /\ \E r \in Requests : req[r].pc = "sleeping"

\* C6: no call of a fetch or render function ends in an error.
C6_NoError ==
  call.fn \in FetchNames \cup RenderNames =>
    /\ call.outcome.status = "returned"
    /\ call.fn \in RenderNames \/ call.outcome.value # None

C6_Witness == call.fn = "get_revenue_data" /\ call.args.period = "yearly"

Fields(rows, type) == \A i \in DOMAIN rows : DOMAIN rows[i] = type

\* C7: every record a fetch function returns has exactly the fields of its
\* declared type.
C7_DeclaredFields ==
  /\ call.fn = "get_revenue_data" => Fields(call.outcome.value, RevenueData)
  /\ call.fn = "get_rental_cars" => Fields(call.outcome.value, CarData)
  /\ call.fn = "get_laptop_comparison" => Fields(call.outcome.value, ProductData)
  /\ call.fn = "get_dashboard_metrics" => DOMAIN call.outcome.value = DashboardMetrics

C7_Witness == call.fn = "get_rental_cars" /\ Len(call.outcome.value) = 4

\* C8: a response and a tool result depend on the own request and the own
\* arguments only, and while a request sleeps another request can start and
\* another request whose sleep is over can return.
C8_Isolation ==
  /\ \A r \in Requests :
       req[r].pc = "responded" => req[r].response = transcribe(req[r].body)
  /\ call.fn # "" => call.outcome = Invoke(call.fn, call.args)
  /\ \A r, q \in Requests :
       (r # q /\ req[r].pc = "sleeping" /\ Routed("/transcribe", "POST")) =>
         /\ req[q].pc = "idle" => ENABLED PostTranscribe(q, "audio")
         /\ (req[q].pc = "sleeping" /\ req[q].slept >= SleepTicks) =>
              ENABLED TranscribeReturn(q)

C8_Witness ==
  \E r, q \in Requests :
    /\ req[r].pc = "sleeping" /\ req[r].slept = SleepTicks
    /\ req[q].pc = "sleeping" /\ req[q].slept = 0
    /\ call.fn = "get_revenue_data"

\* C9: an agent built by create_agent has 11 tools, the 5 fetch tools without
\* external_execution and the 6 render tools with it, and every tool named in
\* the examples of the instructions is registered, the fetch one in the
\* first group and the render one in the second.
C9_Tools ==
  \A l \in Loads :
    "agent" \in DOMAIN ns[l] =>
      LET tools == ns[l].agent.tools
          names(ext) == {tools[i].name : i \in {j \in DOMAIN tools :
                                               tools[j].external_execution = ext}}
          examples == ns[l].agent.examples
      IN /\ Len(tools) = 11
         /\ Cardinality({tools[i].name : i \in DOMAIN tools}) = 11
         /\ names(FALSE) = FetchNames /\ Cardinality(names(FALSE)) = 5
         /\ names(TRUE) = RenderNames /\ Cardinality(names(TRUE)) = 6
         /\ names(FALSE) \cap names(TRUE) = {}
         /\ \A i \in DOMAIN examples :
              /\ examples[i].fetch \in names(FALSE)
              /\ examples[i].render \in names(TRUE)

C9_Witness == Serving /\ call.fn = "render_visualization"

\* C10 as stated: setup_tracing is called once per start, on the sessions
\* database, before the agent, the team and the AgentOS of the module exist,
\* and the served app has the /transcribe route.
C10_TracingOnce ==
  /\ Len(setup_tracing_calls) <= 1
  /\ \A i \in DOMAIN setup_tracing_calls :
       setup_tracing_calls[i].db.db_file = "tmp/data.db"
  /\ \A l \in Loads :
       DOMAIN ns[l] \cap {"agent", "team", "agent_os"} # {} =>
         \E i \in DOMAIN setup_tracing_calls : setup_tracing_calls[i].load = l
  /\ Serving => Routed("/transcribe", "POST")

====
